---- MODULE Spec2Model ----
(***************************************************************************)
(* Model of the python AST generator: the AST node classes and their      *)
(* print_node methods (parser/ast_nodes.py), the command-line driver      *)
(* (python_ast_main.py) and the indentation tracking of the lexer the      *)
(* driver calls.                                                           *)
(*                                                                         *)
(* A node object is a record carrying its class name in cls and the       *)
(* attributes its __init__ sets.  A node's identity is its path from the   *)
(* root of the tree that owns it: a sequence of [f, i] steps, f the        *)
(* attribute followed, i the position in a list attribute (0 for a single  *)
(* child).  One line of standard output is [indent, text]: the text        *)
(* ' ' * indent + text.                                                    *)
(***************************************************************************)
EXTENDS Integers, Sequences, FiniteSets, TLC

VARIABLES
    tree,      \* RenderSpec: the node print_node is called on
    tree0,     \* RenderSpec: history, the tree as it was built
    indent0,   \* RenderSpec: the indentation the caller passes
    pass,      \* RenderSpec: 0 before the first call, then 1, 2; 3 = both returned
    mark,      \* RenderSpec: number of lines on stdout when the second call starts
    work,      \* statements still to execute, innermost call first
    out,       \* lines written to standard output so far
    calls,     \* history: one entry per print_node invocation
    exc,       \* the class of the exception raised, "none" when none was
    pc,        \* driver: position in main()
    input_file,\* driver: args.input_file
    ast_nodes, \* driver: the module forest parser.parse() returned
    it,        \* driver: how many nodes the for loop has taken from ast_nodes
    errmsg,    \* driver: str(e) of the exception raised in the try block
    ret,       \* driver: main()'s return value, -1 while it has not returned
    stage,     \* driver: the step of the try block that raised, "none" if none
    handler,   \* driver: the except clause that ran, "none" if none
    runs,      \* driver: how many times the program has been started
    log,       \* driver: summary of every finished run
    nlines,    \* lexer: how many physical lines have been consumed
    stack,     \* lexer: the indentation stack
    depth,     \* lexer: bracket depth
    tokens,    \* lexer: the structural tokens emitted so far
    lexerr,    \* lexer: TRUE once tokenize has failed with a lexical error
    lexdone,   \* lexer: TRUE once tokenize has finished (returned or raised)
    last       \* lexer: history, the line consumed last and the state it met

vars == <<tree, tree0, indent0, pass, mark, work, out, calls, exc, pc, input_file, ast_nodes, it,
          errmsg, ret,
          stage, handler, runs, log, nlines, stack, depth, tokens, lexerr,
          lexdone, last>>

renderVars == <<tree, tree0, indent0, pass, mark, work, out, calls, exc>>
driverVars == <<pc, input_file, ast_nodes, it, errmsg, ret, stage, handler,
                runs, log>>
lexerVars  == <<nlines, stack, depth, tokens, lexerr, lexdone, last>>

(***************************************************************************)
(* Bounds of the model.                                                    *)
(***************************************************************************)
MaxList   == 2   \* longest list attribute of a generated root node
MaxStart  == 1   \* largest starting indentation passed to print_node
MaxForest == 2   \* most top-level statements in a module forest
MaxRuns   == 2   \* runs of the driver in one behaviour
MaxLines  == 4   \* physical lines of a lexer input
MaxWidth  == 3   \* widest leading whitespace of a line

(***************************************************************************)
(* Python values.                                                          *)
(***************************************************************************)
None == [cls |-> "NoneType"]

\* bool(x) of an object: None is false, an instance of a class that defines
\* neither __bool__ nor __len__ (every node class) is true.
Truthy(x) == x.cls # "NoneType"

\* str(b) of a bool.
StrBool(b) == IF b THEN "True" ELSE "False"

\* str(x) of a float given by its integer part and its fractional digits.
StrFloat(x) == ToString(x.whole) \o "." \o ToString(x.frac)

RECURSIVE Repeat(_, _)
\* s * n of a string.
Repeat(s, n) == IF n <= 0 THEN "" ELSE s \o Repeat(s, n - 1)

SeparatorWidth == 50

(***************************************************************************)
(* The node classes: each constructor is the class's __init__.             *)
(***************************************************************************)
ASTNode == [cls |-> "ASTNode"]

IntLiteralNode(value) == [cls |-> "IntLiteralNode", value |-> value]

FloatLiteralNode(value) == [cls |-> "FloatLiteralNode", value |-> value]

StringLiteralNode(value, is_f_string) ==
    [cls |-> "StringLiteralNode", value |-> value, is_f_string |-> is_f_string]

BoolLiteralNode(value) == [cls |-> "BoolLiteralNode", value |-> value]

NoneLiteralNode == [cls |-> "NoneLiteralNode"]

IdentifierNode(name) == [cls |-> "IdentifierNode", name |-> name]

BinaryOpNode(op, left, right) ==
    [cls |-> "BinaryOpNode", op |-> op, left |-> left, right |-> right]

AssignmentNode(target, value) ==
    [cls |-> "AssignmentNode", target |-> target, value |-> value]

\* keyword_args is a dict: here the sequence of its [key, value] items in
\* insertion order, the order dict.items() yields them in.
FunctionCallNode(callable_obj, arguments, keyword_args) ==
    [cls |-> "FunctionCallNode", callable |-> callable_obj,
     arguments |-> arguments, keyword_args |-> keyword_args]

ParameterNode(name, default_value, is_keyword_only) ==
    [cls |-> "ParameterNode", name |-> name, default_value |-> default_value,
     is_keyword_only |-> is_keyword_only]

FunctionDefNode(name, parameters, body) ==
    [cls |-> "FunctionDefNode", name |-> name, parameters |-> parameters,
     body |-> body]

ClassDefNode(name, bases, body) ==
    [cls |-> "ClassDefNode", name |-> name, bases |-> bases, body |-> body]

ReturnNode(value) == [cls |-> "ReturnNode", value |-> value]

ImportNode(module, alias) ==
    [cls |-> "ImportNode", module |-> module, alias |-> alias]

\* imports is a list of (name, alias) tuples.
FromImportNode(module, imports) ==
    [cls |-> "FromImportNode", module |-> module, imports |-> imports]

IfNode(condition, then_body, else_body) ==
    [cls |-> "IfNode", condition |-> condition, then_body |-> then_body,
     else_body |-> else_body]

WhileNode(condition, body) ==
    [cls |-> "WhileNode", condition |-> condition, body |-> body]

ForNode(target, iterable, body) ==
    [cls |-> "ForNode", target |-> target, iterable |-> iterable, body |-> body]

AttributeNode(value, attr) ==
    [cls |-> "AttributeNode", value |-> value, attr |-> attr]

ListNode(elements) == [cls |-> "ListNode", elements |-> elements]

\* items is a list of (key, value) tuples.
DictNode(items) == [cls |-> "DictNode", items |-> items]

SubscriptNode(value, index) ==
    [cls |-> "SubscriptNode", value |-> value, index |-> index]

PassNode == [cls |-> "PassNode"]

BreakNode == [cls |-> "BreakNode"]

ContinueNode == [cls |-> "ContinueNode"]

(***************************************************************************)
(* Statements a print_node body executes, in program order.                *)
(***************************************************************************)
\* Mutant of print: the line is numbered from a counter of the lines written
\* so far, state that outlives the call.
print_numbered(indent, text) ==
    [k |-> "print", indent |-> indent, text |-> ToString(Len(out)) \o text]

\* print(' ' * indent + text)
print(indent, text) == [k |-> "print", indent |-> indent, text |-> text]

\* node.print_node(indent), node being attribute f (position i) of self
Call(node, f, i, indent) ==
    [k |-> "call", node |-> node, f |-> f, i |-> i, indent |-> indent]

\* raise e
Raise(e) == [k |-> "raise", e |-> e]

\* Mutant of ForEach: for x in reversed(list).
ForEach_reversed(list, f, indent) ==
    [i \in 1..Len(list) |->
        Call(list[Len(list) + 1 - i], f, Len(list) + 1 - i, indent)]

\* for x in list: x.print_node(indent)
ForEach(list, f, indent) ==
    [i \in 1..Len(list) |-> Call(list[i], f, i, indent)]

RECURSIVE Flatten(_)
\* The statements of the iterations of a loop, one after the other.
Flatten(ss) == IF ss = <<>> THEN <<>> ELSE Head(ss) \o Flatten(Tail(ss))

(***************************************************************************)
(* print_node of every class.                                              *)
(***************************************************************************)
ASTNode_print_node(self, indent) == <<Raise("NotImplementedError")>>

IntLiteralNode_print_node(self, indent) ==
    <<print(indent, "IntLiteral(" \o ToString(self.value) \o ")")>>

FloatLiteralNode_print_node(self, indent) ==
    <<print(indent, "FloatLiteral(" \o StrFloat(self.value) \o ")")>>

StringLiteralNode_print_node(self, indent) ==
    LET node_type == IF self.is_f_string THEN "FString" ELSE "StringLiteral"
    IN  <<print(indent, node_type \o "(\"" \o self.value \o "\")")>>

BoolLiteralNode_print_node(self, indent) ==
    <<print(indent, "BoolLiteral(" \o StrBool(self.value) \o ")")>>

NoneLiteralNode_print_node(self, indent) == <<print(indent, "None")>>

IdentifierNode_print_node(self, indent) ==
    <<print(indent, "Identifier(" \o self.name \o ")")>>

BinaryOpNode_print_node(self, indent) ==
    <<print(indent, "BinaryOp(" \o self.op \o ")"),
      Call(self.left, "left", 0, indent + 2),
      Call(self.right, "right", 0, indent + 2)>>

AssignmentNode_print_node(self, indent) ==
    <<print(indent, "Assignment"),
      print(indent + 2, "Target:"),
      Call(self.target, "target", 0, indent + 4),
      print(indent + 2, "Value:"),
      Call(self.value, "value", 0, indent + 4)>>

FunctionCallNode_print_node(self, indent) ==
    <<print(indent, "FunctionCall"),
      print(indent + 2, "Callable:"),
      Call(self.callable, "callable", 0, indent + 4)>>
    \o (IF self.arguments # <<>>
        THEN <<print(indent + 2, "Arguments:")>>
             \o ForEach(self.arguments, "arguments", indent + 4)
        ELSE <<>>)
    \o (IF self.keyword_args # <<>>
        THEN <<print(indent + 2, "Keyword Arguments:")>>
             \o Flatten([i \in 1..Len(self.keyword_args) |->
                    <<print(indent + 4, self.keyword_args[i].key \o ":"),
                      Call(self.keyword_args[i].value, "keyword_args", i,
                           indent + 6)>>])
        ELSE <<>>)

ParameterNode_print_node(self, indent) ==
    LET param_info == IF self.is_keyword_only
                      THEN self.name \o ", keyword-only"
                      ELSE self.name
    IN  <<print(indent, "Parameter(" \o param_info \o ")")>>
        \o (IF Truthy(self.default_value)
            THEN <<print(indent + 2, "Default Value:"),
                   Call(self.default_value, "default_value", 0, indent + 4)>>
            ELSE <<>>)

FunctionDefNode_print_node(self, indent) ==
    <<print(indent, "FunctionDef(" \o self.name \o ")"),
      print(indent + 2, "Parameters:")>>
    \o ForEach(self.parameters, "parameters", indent + 4)
    \o <<print(indent + 2, "Body:")>>
    \o ForEach(self.body, "body", indent + 4)

ClassDefNode_print_node(self, indent) ==
    <<print(indent, "ClassDef(" \o self.name \o ")")>>
    \o (IF self.bases # <<>>
        THEN <<print(indent + 2, "Bases:")>>
             \o ForEach(self.bases, "bases", indent + 4)
        ELSE <<>>)
    \o <<print(indent + 2, "Body:")>>
    \o ForEach(self.body, "body", indent + 4)

ReturnNode_print_node(self, indent) ==
    <<print(indent, "Return")>>
    \o (IF Truthy(self.value)
        THEN <<Call(self.value, "value", 0, indent + 2)>>
        ELSE <<>>)

ImportNode_print_node(self, indent) ==
    LET import_info == IF self.alias # ""
                       THEN self.module \o " as " \o self.alias
                       ELSE self.module
    IN  <<print(indent, "Import(" \o import_info \o ")")>>

\* What the loop of FromImportNode.print_node prints for one (name, alias).
ImportInfo(name, alias) == IF alias # "" THEN name \o " as " \o alias ELSE name

FromImportNode_print_node(self, indent) ==
    <<print(indent, "FromImport(" \o self.module \o ")"),
      print(indent + 2, "Names:")>>
    \o [i \in 1..Len(self.imports) |->
          print(indent + 4, ImportInfo(self.imports[i][1], self.imports[i][2]))]

IfNode_print_node(self, indent) ==
    <<print(indent, "If"),
      print(indent + 2, "Condition:"),
      Call(self.condition, "condition", 0, indent + 4),
      print(indent + 2, "Then:")>>
    \o ForEach(self.then_body, "then_body", indent + 4)
    \o (IF self.else_body # <<>>
        THEN <<print(indent + 2, "Else:")>>
             \o ForEach(self.else_body, "else_body", indent + 4)
        ELSE <<>>)

WhileNode_print_node(self, indent) ==
    <<print(indent, "While"),
      print(indent + 2, "Condition:"),
      Call(self.condition, "condition", 0, indent + 4),
      print(indent + 2, "Body:")>>
    \o ForEach(self.body, "body", indent + 4)

ForNode_print_node(self, indent) ==
    <<print(indent, "For"),
      print(indent + 2, "Target:"),
      Call(self.target, "target", 0, indent + 4),
      print(indent + 2, "Iterable:"),
      Call(self.iterable, "iterable", 0, indent + 4),
      print(indent + 2, "Body:")>>
    \o ForEach(self.body, "body", indent + 4)

AttributeNode_print_node(self, indent) ==
    <<print(indent, "Attribute(" \o self.attr \o ")"),
      print(indent + 2, "Value:"),
      Call(self.value, "value", 0, indent + 4)>>

ListNode_print_node(self, indent) ==
    <<print(indent, "List")>>
    \o (IF self.elements # <<>>
        THEN <<print(indent + 2, "Elements:")>>
             \o ForEach(self.elements, "elements", indent + 4)
        ELSE <<>>)

\* Mutant of DictNode.print_node: keys and values at indent + 4.
DictNode_print_node_shallow(self, indent) ==
    <<print(indent, "Dict")>>
    \o (IF self.items # <<>>
        THEN <<print(indent + 2, "Items:")>>
             \o Flatten([i \in 1..Len(self.items) |->
                    <<print(indent + 4, "Key:"),
                      Call(self.items[i][1], "items.key", i, indent + 4),
                      print(indent + 4, "Value:"),
                      Call(self.items[i][2], "items.value", i, indent + 4)>>])
        ELSE <<>>)

DictNode_print_node(self, indent) ==
    <<print(indent, "Dict")>>
    \o (IF self.items # <<>>
        THEN <<print(indent + 2, "Items:")>>
             \o Flatten([i \in 1..Len(self.items) |->
                    <<print(indent + 4, "Key:"),
                      Call(self.items[i][1], "items.key", i, indent + 6),
                      print(indent + 4, "Value:"),
                      Call(self.items[i][2], "items.value", i, indent + 6)>>])
        ELSE <<>>)

SubscriptNode_print_node(self, indent) ==
    <<print(indent, "Subscript"),
      print(indent + 2, "Value:"),
      Call(self.value, "value", 0, indent + 4),
      print(indent + 2, "Index:"),
      Call(self.index, "index", 0, indent + 4)>>

\* Mutant of PassNode.print_node: the class does not override the method.
PassNode_print_node_missing(self, indent) == ASTNode_print_node(self, indent)

PassNode_print_node(self, indent) == <<print(indent, "Pass")>>

BreakNode_print_node(self, indent) == <<print(indent, "Break")>>

ContinueNode_print_node(self, indent) == <<print(indent, "Continue")>>

\* self.print_node(indent): Python's method lookup.  A class that does not
\* override print_node inherits ASTNode's.
print_node(self, indent) ==
    CASE self.cls = "IntLiteralNode"    -> IntLiteralNode_print_node(self, indent)
      [] self.cls = "FloatLiteralNode"  -> FloatLiteralNode_print_node(self, indent)
      [] self.cls = "StringLiteralNode" -> StringLiteralNode_print_node(self, indent)
      [] self.cls = "BoolLiteralNode"   -> BoolLiteralNode_print_node(self, indent)
      [] self.cls = "NoneLiteralNode"   -> NoneLiteralNode_print_node(self, indent)
      [] self.cls = "IdentifierNode"    -> IdentifierNode_print_node(self, indent)
      [] self.cls = "BinaryOpNode"      -> BinaryOpNode_print_node(self, indent)
      [] self.cls = "AssignmentNode"    -> AssignmentNode_print_node(self, indent)
      [] self.cls = "FunctionCallNode"  -> FunctionCallNode_print_node(self, indent)
      [] self.cls = "ParameterNode"     -> ParameterNode_print_node(self, indent)
      [] self.cls = "FunctionDefNode"   -> FunctionDefNode_print_node(self, indent)
      [] self.cls = "ClassDefNode"      -> ClassDefNode_print_node(self, indent)
      [] self.cls = "ReturnNode"        -> ReturnNode_print_node(self, indent)
      [] self.cls = "ImportNode"        -> ImportNode_print_node(self, indent)
      [] self.cls = "FromImportNode"    -> FromImportNode_print_node(self, indent)
      [] self.cls = "IfNode"            -> IfNode_print_node(self, indent)
      [] self.cls = "WhileNode"         -> WhileNode_print_node(self, indent)
      [] self.cls = "ForNode"           -> ForNode_print_node(self, indent)
      [] self.cls = "AttributeNode"     -> AttributeNode_print_node(self, indent)
      [] self.cls = "ListNode"          -> ListNode_print_node(self, indent)
      [] self.cls = "DictNode"          -> DictNode_print_node(self, indent)
      [] self.cls = "SubscriptNode"     -> SubscriptNode_print_node(self, indent)
      [] self.cls = "PassNode"          -> PassNode_print_node(self, indent)
      [] self.cls = "BreakNode"         -> BreakNode_print_node(self, indent)
      [] self.cls = "ContinueNode"      -> ContinueNode_print_node(self, indent)
      [] OTHER                          -> ASTNode_print_node(self, indent)

(***************************************************************************)
(* The data model: the child nodes each class owns, in the order its       *)
(* __init__ stores them.                                                   *)
(***************************************************************************)
Child(f, i, node) == [f |-> f, i |-> i, node |-> node]

One(self, f) == <<Child(f, 0, self[f])>>

Many(self, f) == [i \in 1..Len(self[f]) |-> Child(f, i, self[f][i])]

Optional(self, f) == IF Truthy(self[f]) THEN One(self, f) ELSE <<>>

Children(self) ==
    CASE self.cls = "BinaryOpNode"     -> One(self, "left") \o One(self, "right")
      [] self.cls = "AssignmentNode"   -> One(self, "target") \o One(self, "value")
      [] self.cls = "FunctionCallNode" ->
             One(self, "callable") \o Many(self, "arguments")
             \o [i \in 1..Len(self.keyword_args) |->
                    Child("keyword_args", i, self.keyword_args[i].value)]
      [] self.cls = "ParameterNode"    -> Optional(self, "default_value")
      [] self.cls = "FunctionDefNode"  -> Many(self, "parameters") \o Many(self, "body")
      [] self.cls = "ClassDefNode"     -> Many(self, "bases") \o Many(self, "body")
      [] self.cls = "ReturnNode"       -> Optional(self, "value")
      [] self.cls = "IfNode"           ->
             One(self, "condition") \o Many(self, "then_body")
             \o Many(self, "else_body")
      [] self.cls = "WhileNode"        -> One(self, "condition") \o Many(self, "body")
      [] self.cls = "ForNode"          ->
             One(self, "target") \o One(self, "iterable") \o Many(self, "body")
      [] self.cls = "AttributeNode"    -> One(self, "value")
      [] self.cls = "ListNode"         -> Many(self, "elements")
      [] self.cls = "DictNode"         ->
             Flatten([i \in 1..Len(self.items) |->
                 <<Child("items.key", i, self.items[i][1]),
                   Child("items.value", i, self.items[i][2])>>])
      [] self.cls = "SubscriptNode"    -> One(self, "value") \o One(self, "index")
      [] OTHER                         -> <<>>

\* The attributes that hold a list of nodes (for a dict or a list of
\* tuples: of the nodes inside its entries).
ListFields(self) ==
    CASE self.cls = "FunctionCallNode" -> {"arguments", "keyword_args"}
      [] self.cls = "FunctionDefNode"  -> {"parameters", "body"}
      [] self.cls = "ClassDefNode"     -> {"bases", "body"}
      [] self.cls = "IfNode"           -> {"then_body", "else_body"}
      [] self.cls = "WhileNode"        -> {"body"}
      [] self.cls = "ForNode"          -> {"body"}
      [] self.cls = "ListNode"         -> {"elements"}
      [] self.cls = "DictNode"         -> {"items.key", "items.value"}
      [] OTHER                         -> {}

\* The classes of the closed variant set: every class of ast_nodes.py but
\* the base class.
NodeClasses ==
    {"IntLiteralNode", "FloatLiteralNode", "StringLiteralNode",
     "BoolLiteralNode", "NoneLiteralNode", "IdentifierNode", "BinaryOpNode",
     "AssignmentNode", "FunctionCallNode", "ParameterNode", "FunctionDefNode",
     "ClassDefNode", "ReturnNode", "ImportNode", "FromImportNode", "IfNode",
     "WhileNode", "ForNode", "AttributeNode", "ListNode", "DictNode",
     "SubscriptNode", "PassNode", "BreakNode", "ContinueNode"}

Range(seq) == {seq[j] : j \in 1..Len(seq)}

RECURSIVE Nodes(_, _)
\* Every node of the tree under self, as [path, node].
Nodes(self, path) ==
    {[path |-> path, node |-> self]}
    \cup UNION {Nodes(c.node, path \o <<[f |-> c.f, i |-> c.i]>>) :
                  c \in Range(Children(self))}

OnlyVariants(self) == \A n \in Nodes(self, <<>>) : n.node.cls \in NodeClasses

(***************************************************************************)
(* Execution of print_node: the interpreter state is [work, out, calls,    *)
(* exc]; Exec runs the next statement.                                     *)
(***************************************************************************)
\* The call of print_node on the root of a tree.
RootCall(node, indent, path) ==
    [k |-> "call", node |-> node, indent |-> indent, path |-> path,
     f |-> "", i |-> 0, caller |-> <<>>, callerIndent |-> indent,
     callerCls |-> "", isRoot |-> TRUE]

\* The statements of one invocation, each recursive call knowing the node
\* it is made on and the invocation that makes it.
Bind(stmts, c) ==
    [j \in 1..Len(stmts) |->
        IF stmts[j].k = "call"
        THEN [k |-> "call", node |-> stmts[j].node, indent |-> stmts[j].indent,
              path |-> c.path \o <<[f |-> stmts[j].f, i |-> stmts[j].i]>>,
              f |-> stmts[j].f, i |-> stmts[j].i,
              caller |-> c.path, callerIndent |-> c.indent,
              callerCls |-> c.node.cls, isRoot |-> FALSE]
        ELSE stmts[j]]

ExecPrintStmt(s, h) ==
    [s EXCEPT !.out = Append(s.out, [indent |-> h.indent, text |-> h.text]),
              !.work = Tail(s.work)]

ExecCallStmt(s, h) ==
    [s EXCEPT !.work = Bind(print_node(h.node, h.indent), h) \o Tail(s.work),
              !.calls = Append(s.calls,
                  [path |-> h.path, node |-> h.node, cls |-> h.node.cls,
                   indent |-> h.indent,
                   f |-> h.f, i |-> h.i, caller |-> h.caller,
                   callerIndent |-> h.callerIndent, callerCls |-> h.callerCls,
                   isRoot |-> h.isRoot, line |-> Len(s.out) + 1])]

\* No print_node catches anything: the exception unwinds every frame.
ExecRaiseStmt(s, h) == [s EXCEPT !.work = <<>>, !.exc = h.e]

Exec(s) ==
    LET h == Head(s.work)
    IN  CASE h.k = "print" -> ExecPrintStmt(s, h)
          [] h.k = "call"  -> ExecCallStmt(s, h)
          [] h.k = "raise" -> ExecRaiseStmt(s, h)

RECURSIVE RunAll(_)
RunAll(s) == IF s.work = <<>> THEN s ELSE RunAll(Exec(s))

\* node.print_node(indent) run to its end: what it printed, and the
\* exception it raised, if any.
Render(node, indent, path) ==
    RunAll([work |-> <<RootCall(node, indent, path)>>, out |-> <<>>,
            calls |-> <<>>, exc |-> "none"])

(***************************************************************************)
(* The trees print_node is exercised on: every class as the root, its      *)
(* list attributes of every length up to MaxList filled from small pools   *)
(* of subtrees, the trees of the documented scenarios, and trees that      *)
(* hold an instance of the base class.                                     *)
(***************************************************************************)
SeqsUpTo(S, n) == UNION {[1..k -> S] : k \in 0..n}

ExprPool ==
    {IntLiteralNode(1),
     BinaryOpNode("+", IdentifierNode("a"), IntLiteralNode(2))}

TargetPool ==
    {IdentifierNode("x"),
     AttributeNode(IdentifierNode("obj"), "attr"),
     SubscriptNode(IdentifierNode("xs"), IntLiteralNode(0))}

StmtPool == {PassNode, ReturnNode(IdentifierNode("a"))}

ParamPool ==
    {ParameterNode("a", None, FALSE),
     ParameterNode("b", IntLiteralNode(2), FALSE),
     ParameterNode("c", None, TRUE)}

NamePool == {<<"sqrt", "s">>, <<"pi", "">>}

\* Keyword arguments: a dict, so the keys are distinct.
KeywordArgs ==
    UNION {{[i \in 1..k |-> [key |-> "k" \o ToString(i), value |-> v[i]]] :
              v \in [1..k -> ExprPool]} : k \in 0..MaxList}

LeafTrees ==
    {IntLiteralNode(0), IntLiteralNode(42),
     FloatLiteralNode([whole |-> 1, frac |-> 5]),
     StringLiteralNode("a", FALSE), StringLiteralNode("a", TRUE),
     BoolLiteralNode(TRUE), BoolLiteralNode(FALSE), NoneLiteralNode,
     IdentifierNode("x"), ImportNode("os", ""), ImportNode("numpy", "np"),
     PassNode, BreakNode, ContinueNode}

ExprTrees ==
    {BinaryOpNode(op, l, r) : op \in {"+", "**"}, l \in ExprPool, r \in ExprPool}
    \cup {FunctionCallNode(IdentifierNode("f"), a, kw) :
            a \in SeqsUpTo(ExprPool, MaxList), kw \in KeywordArgs}
    \cup TargetPool
    \cup {ListNode(e) : e \in SeqsUpTo(ExprPool, MaxList)}
    \cup {DictNode(kv) : kv \in SeqsUpTo(ExprPool \X ExprPool, MaxList)}

StmtTrees ==
    {AssignmentNode(t, v) : t \in TargetPool, v \in ExprPool}
    \cup ParamPool
    \cup {ParameterNode("d", IntLiteralNode(2), TRUE)}
    \cup {FunctionDefNode("f", ps, b) :
            ps \in SeqsUpTo(ParamPool, MaxList), b \in SeqsUpTo(StmtPool, MaxList)}
    \cup {ClassDefNode("C", bs, b) :
            bs \in SeqsUpTo(ExprPool, MaxList), b \in SeqsUpTo(StmtPool, MaxList)}
    \cup {ReturnNode(None)} \cup {ReturnNode(v) : v \in ExprPool}
    \cup {FromImportNode("math", ns) : ns \in SeqsUpTo(NamePool, MaxList)}
    \cup {IfNode(c, t, e) : c \in ExprPool, t \in SeqsUpTo(StmtPool, MaxList),
                            e \in SeqsUpTo(StmtPool, MaxList)}
    \cup {WhileNode(c, b) : c \in ExprPool, b \in SeqsUpTo(StmtPool, MaxList)}
    \cup {ForNode(IdentifierNode("i"), e, b) :
            e \in ExprPool, b \in SeqsUpTo(StmtPool, MaxList)}

\* Scenario A: x = 1 + 2
ScenarioA ==
    AssignmentNode(IdentifierNode("x"),
                   BinaryOpNode("+", IntLiteralNode(1), IntLiteralNode(2)))

\* Scenario B: def f(a, b=2, *, c): return a
ScenarioB ==
    FunctionDefNode("f",
        <<ParameterNode("a", None, FALSE),
          ParameterNode("b", IntLiteralNode(2), FALSE),
          ParameterNode("c", None, TRUE)>>,
        <<ReturnNode(IdentifierNode("a"))>>)

\* Scenario C: from math import sqrt as s
ScenarioC == FromImportNode("math", <<<<"sqrt", "s">>>>)

\* Scenario F: d = {1: "a", 2: "b"}
ScenarioF ==
    AssignmentNode(IdentifierNode("d"),
        DictNode(<<<<IntLiteralNode(1), StringLiteralNode("a", FALSE)>>,
                   <<IntLiteralNode(2), StringLiteralNode("b", FALSE)>>>>))

\* if a: pass / elif b: f(k=[1]) / else: break -- the elif is an IfNode
\* that is the only element of the outer else_body.
ElifChain ==
    IfNode(IdentifierNode("a"), <<PassNode>>,
        <<IfNode(IdentifierNode("b"),
            <<FunctionCallNode(IdentifierNode("f"), <<>>,
                <<[key |-> "k", value |-> ListNode(<<IntLiteralNode(1)>>)]>>)>>,
            <<BreakNode>>)>>)

ScenarioTrees == {ScenarioA, ScenarioB, ScenarioC, ScenarioF, ElifChain}

\* Trees that are not built from the variant classes alone.
BaseClassTrees ==
    {ASTNode,
     BinaryOpNode("+", IntLiteralNode(1), ASTNode),
     ListNode(<<PassNode, ASTNode, PassNode>>)}

Trees == LeafTrees \cup ExprTrees \cup StmtTrees \cup ScenarioTrees
         \cup BaseClassTrees

(***************************************************************************)
(* RenderSpec: a caller invokes tree.print_node(indent0) twice in a row.   *)
(***************************************************************************)
NoLine ==
    [kind |-> "none", width |-> 0, br |-> "none", stackBefore |-> <<>>,
     depthBefore |-> 0]

DriverIdle ==
    /\ pc = "idle" /\ input_file = "" /\ ast_nodes = <<>> /\ it = 0
    /\ errmsg = "" /\ ret = -1 /\ stage = "none"
    /\ handler = "none" /\ runs = 0 /\ log = {}

LexerIdle ==
    /\ nlines = 0 /\ stack = <<>> /\ depth = 0 /\ tokens = <<>>
    /\ lexerr = FALSE /\ lexdone = FALSE /\ last = NoLine

RenderIdle ==
    /\ tree = None /\ tree0 = None /\ indent0 = 0 /\ pass = 0 /\ mark = 0 /\ work = <<>>
    /\ calls = <<>>

RenderInit ==
    /\ tree \in Trees
    /\ tree0 = tree
    /\ indent0 \in 0..MaxStart
    /\ pass = 0 /\ mark = 0
    /\ work = <<>> /\ out = <<>> /\ calls = <<>> /\ exc = "none"
    /\ DriverIdle /\ LexerIdle

Interp == [work |-> work, out |-> out, calls |-> calls, exc |-> exc]

SetInterp(s) ==
    /\ work' = s.work /\ out' = s.out /\ calls' = s.calls /\ exc' = s.exc

\* tree.print_node(indent0)
StartCall ==
    /\ pass \in {0, 1} /\ work = <<>> /\ exc = "none"
    /\ pass' = pass + 1
    /\ mark' = Len(out)
    /\ work' = <<RootCall(tree, indent0, <<>>)>>
    /\ calls' = <<>>
    /\ UNCHANGED <<tree, tree0, indent0, out, exc, driverVars, lexerVars>>

ExecPrint ==
    /\ work # <<>> /\ Head(work).k = "print"
    /\ SetInterp(Exec(Interp))
    /\ UNCHANGED <<tree, tree0, indent0, pass, mark, driverVars, lexerVars>>

ExecCall ==
    /\ work # <<>> /\ Head(work).k = "call"
    /\ SetInterp(Exec(Interp))
    /\ UNCHANGED <<tree, tree0, indent0, pass, mark, driverVars, lexerVars>>

ExecRaise ==
    /\ work # <<>> /\ Head(work).k = "raise"
    /\ SetInterp(Exec(Interp))
    /\ UNCHANGED <<tree, tree0, indent0, pass, mark, driverVars, lexerVars>>

RenderNext == StartCall \/ ExecPrint \/ ExecCall \/ ExecRaise

RenderSpec == RenderInit /\ [][RenderNext]_vars

(***************************************************************************)
(* Properties of rendering (RenderSpec).                                   *)
(***************************************************************************)
\* A call of tree.print_node(indent0) has returned normally.
Returned == pass >= 1 /\ work = <<>> /\ exc = "none"

\* The invocations made by the invocation on the node at path p for the
\* children of its attribute f, in the order they were made.
Callees(p, f) ==
    SelectSeq(calls, LAMBDA c : ~c.isRoot /\ c.caller = p /\ c.f = f)

\* The child nodes attribute f of self stores, in stored order.
FieldNodes(self, f) ==
    LET cs == SelectSeq(Children(self), LAMBDA c : c.f = f)
    IN  [j \in 1..Len(cs) |-> cs[j].node]

\* The invocation made on the node at path p.
CallOn(p) == CHOOSE c \in Range(calls) : c.path = p

C7_ListOrderPreserved ==
    Returned =>
      \A n \in Nodes(tree, <<>>) :
        /\ \A f \in ListFields(n.node) :
             LET cs == Callees(n.path, f)
             IN  [j \in 1..Len(cs) |-> cs[j].node] = FieldNodes(n.node, f)
        /\ n.node.cls = "FromImportNode" =>
             LET first == CallOn(n.path).line + 1
             IN  \A j \in 1..Len(n.node.imports) :
                   /\ first + j <= Len(out)
                   /\ out[first + j].text =
                        ImportInfo(n.node.imports[j][1], n.node.imports[j][2])

C7_Witness ==
    /\ Returned /\ pass = 1
    /\ \E n \in Nodes(tree, <<>>) : \E f \in ListFields(n.node) :
         /\ Len(FieldNodes(n.node, f)) >= 2
         /\ FieldNodes(n.node, f)[1] # FieldNodes(n.node, f)[2]
         /\ Len(Callees(n.path, f)) >= 2

\* The offset from a node's own indentation at which the child in its
\* attribute f is rendered.
ChildOffset(cls, f) ==
    CASE cls \in {"BinaryOpNode", "ReturnNode"}           -> 2
      [] cls = "DictNode"                                 -> 6
      [] cls = "FunctionCallNode" /\ f = "keyword_args"   -> 6
      [] OTHER                                            -> 4

\* C8 as stated: every child is rendered at d+2 or d+4.
C8_Original_ChildAtTwoOrFour ==
    \A c \in Range(calls) :
        ~c.isRoot => (c.indent - c.callerIndent) \in {2, 4}

\* C8 as amended: a node rendered at depth d prints its tag line at exactly
\* d spaces; its children are rendered at d+2 when they follow the tag line
\* directly (BinaryOp operands, Return value), at d+6 when they are the key
\* or value of a dictionary entry or the value of a keyword argument, and
\* at d+4 in every other case; no child is rendered at any other offset.
C8_ChildOffsets ==
    /\ \A c \in Range(calls) :
         /\ c.line <= Len(out) => out[c.line].indent = c.indent
         /\ ~c.isRoot =>
              c.indent - c.callerIndent = ChildOffset(c.callerCls, c.f)
    /\ Returned => \A c \in Range(calls) : c.line <= Len(out)

C8_Witness ==
    /\ Returned /\ tree = ScenarioF /\ indent0 = 1
    /\ \E c \in Range(calls) : c.callerCls = "DictNode" /\ c.indent = 11
    /\ \E c \in Range(calls) : c.callerCls = "AssignmentNode" /\ c.indent = 5

\* C10: on a tree built only from the variant classes print_node never
\* raises NotImplementedError, no node is ever visited twice, and when
\* print_node returns every node of the tree has been visited exactly once.
C10_EveryVariantRenders ==
    /\ OnlyVariants(tree) => exc = "none"
    /\ \A a, b \in 1..Len(calls) : calls[a].path = calls[b].path => a = b
    /\ (Returned /\ OnlyVariants(tree)) =>
          /\ {c.path : c \in Range(calls)}
               = {n.path : n \in Nodes(tree, <<>>)}
          /\ \A c \in Range(calls) :
               [path |-> c.path, node |-> c.node] \in Nodes(tree, <<>>)

C10_Witness ==
    /\ Returned /\ pass = 2 /\ tree = ElifChain
    /\ Len(calls) = Cardinality(Nodes(tree, <<>>))
    /\ Len(calls) >= 9

(***************************************************************************)
(* The driver, python_ast_main.py.                                         *)
(***************************************************************************)
\* Python's exception classes: each class's direct base.
BaseOf(cls) ==
    CASE cls = "FileNotFoundError"   -> "OSError"
      [] cls = "PermissionError"     -> "OSError"
      [] cls = "OSError"             -> "Exception"
      [] cls = "SyntaxError"         -> "Exception"
      [] cls = "LexerError"          -> "Exception"
      [] cls = "NotImplementedError" -> "RuntimeError"
      [] cls = "RuntimeError"        -> "Exception"
      [] cls = "Exception"           -> "BaseException"
      [] cls = "KeyboardInterrupt"   -> "BaseException"
      [] OTHER                       -> "object"

RECURSIVE IsSubclass(_, _)
IsSubclass(cls, base) ==
    \/ cls = base
    \/ cls \notin {"object", "BaseException"} /\ IsSubclass(BaseOf(cls), base)

\* What read_file(args.input_file) can do: return the text, or raise.
ReadOutcomes == {"ok", "FileNotFoundError", "PermissionError", "KeyboardInterrupt"}

\* What lexer.tokenize() can do: return the tokens, fail with a lexical
\* error (a class of the lexer's own, or the builtin SyntaxError), or fail
\* in a way nobody anticipated.
TokenizeOutcomes == {"ok", "LexerError", "SyntaxError", "RuntimeError"}

\* What parser.parse() can do: return the forest, fail with a syntax
\* error, or fail in a way nobody anticipated.
ParseOutcomes == {"ok", "SyntaxError", "RuntimeError"}

\* str(e) of the exception a step raises.
StrOf(step, cls, file) ==
    CASE cls = "FileNotFoundError" ->
             "[Errno 2] No such file or directory: '" \o file \o "'"
      [] cls = "PermissionError"   ->
             "[Errno 13] Permission denied: '" \o file \o "'"
      [] cls = "NotImplementedError" -> "Each AST node must implement print_node"
      [] step = "tokenize" /\ cls # "RuntimeError" ->
             "Inconsistent dedent at line 3, column 1"
      [] step = "parse" /\ cls # "RuntimeError" ->
             "Expected ':', found NEWLINE at line 1, column 5"
      [] OTHER -> "maximum recursion depth exceeded"

Files == {"prog.py"}

\* The forests parser.parse() returns: statements built from the variant
\* classes.
ForestPool == {ScenarioA, ScenarioC, ElifChain}

Forests == SeqsUpTo(ForestPool, MaxForest)

\* The member of the error taxonomy a failed run belongs to.
Member(step, cls) ==
    CASE step = "read" -> "FileAccessError"
      [] step = "tokenize" /\ cls \in {"LexerError", "SyntaxError"} -> "LexicalError"
      [] step = "parse" /\ cls = "SyntaxError" -> "SyntaxError"
      [] OTHER -> "InternalError"

HeaderLine(file) ==
    [indent |-> 0, text |-> "Abstract Syntax Tree for " \o file \o ":"]

SeparatorLine == [indent |-> 0, text |-> Repeat("-", SeparatorWidth)]

\* Mutant of HandlerFor: the generic clause is tried before SyntaxError's.
HandlerFor_generic_first(cls) ==
    IF IsSubclass(cls, "FileNotFoundError") THEN "FileNotFoundError"
    ELSE IF IsSubclass(cls, "Exception") THEN "Exception"
    ELSE IF IsSubclass(cls, "SyntaxError") THEN "SyntaxError"
    ELSE "none"

\* The except clause that catches an exception of class cls: the first
\* whose class it is an instance of; "none" when it leaves main().
HandlerFor(cls) ==
    IF IsSubclass(cls, "FileNotFoundError") THEN "FileNotFoundError"
    ELSE IF IsSubclass(cls, "SyntaxError") THEN "SyntaxError"
    ELSE IF IsSubclass(cls, "Exception") THEN "Exception"
    ELSE "none"

\* The literal text each except clause's message starts with.
MessagePrefix(h) ==
    CASE h = "FileNotFoundError" -> "Error: Could not open file "
      [] h = "SyntaxError"       -> "Syntax Error: "
      [] h = "Exception"         -> "Error: "

\* The line an except clause prints.
Message(h, file, msg) ==
    [indent |-> 0,
     text |-> MessagePrefix(h) \o (IF h = "FileNotFoundError" THEN file ELSE msg)]

\* Mutant of HandlerStatus: the SyntaxError clause lacks its return, and
\* main falls through to return 0.
HandlerStatus_fallthrough(h) == IF h = "SyntaxError" THEN 0 ELSE 1

\* The value each except clause returns.
HandlerStatus(h) == 1

DriverInit ==
    /\ pc = "idle" /\ input_file = "" /\ ast_nodes = <<>> /\ it = 0
    /\ errmsg = "" /\ ret = -1 /\ stage = "none" /\ handler = "none"
    /\ runs = 0 /\ log = {}
    /\ out = <<>> /\ exc = "none"
    /\ RenderIdle /\ LexerIdle

idleVars == <<tree, tree0, indent0, pass, mark, work, calls, lexerVars>>

\* The program is started: argparse accepts the argument, main() enters
\* its try block.
StartRun ==
    /\ pc \in {"idle", "exit"} /\ runs < MaxRuns
    /\ \E f \in Files : input_file' = f
    /\ runs' = runs + 1
    /\ pc' = "read"
    /\ ast_nodes' = <<>> /\ it' = 0 /\ errmsg' = "" /\ ret' = -1
    /\ stage' = "none" /\ handler' = "none" /\ out' = <<>> /\ exc' = "none"
    /\ UNCHANGED <<log, idleVars>>

\* A step of the try block raises cls.
RaiseIn(step, cls) ==
    /\ exc' = cls /\ stage' = step /\ pc' = "except"
    /\ errmsg' = StrOf(step, cls, input_file)

\* source = read_file(args.input_file)
ReadFile ==
    /\ pc = "read"
    /\ \E o \in ReadOutcomes :
         IF o = "ok"
         THEN pc' = "tokenize" /\ UNCHANGED <<exc, stage, errmsg>>
         ELSE RaiseIn("read", o)
    /\ UNCHANGED <<input_file, ast_nodes, it, ret, handler, runs, log, out, idleVars>>

\* Mutant of Tokenize: the header is printed before the source is tokenized.
Tokenize_header_first ==
    /\ pc = "tokenize"
    /\ out' = Append(out, HeaderLine(input_file))
    /\ \E o \in TokenizeOutcomes :
         IF o = "ok"
         THEN pc' = "parse" /\ UNCHANGED <<exc, stage, errmsg>>
         ELSE RaiseIn("tokenize", o)
    /\ UNCHANGED <<input_file, ast_nodes, it, ret, handler, runs, log, idleVars>>

\* lexer = Lexer(source); tokens = lexer.tokenize()
Tokenize ==
    /\ pc = "tokenize"
    /\ \E o \in TokenizeOutcomes :
         IF o = "ok"
         THEN pc' = "parse" /\ UNCHANGED <<exc, stage, errmsg>>
         ELSE RaiseIn("tokenize", o)
    /\ UNCHANGED <<input_file, ast_nodes, it, ret, handler, runs, log, out, idleVars>>

\* parser = Parser(tokens); ast_nodes = parser.parse()
Parse ==
    /\ pc = "parse"
    /\ \E o \in ParseOutcomes :
         IF o = "ok"
         THEN /\ \E forest \in Forests : ast_nodes' = forest
              /\ pc' = "header" /\ UNCHANGED <<exc, stage, errmsg>>
         ELSE RaiseIn("parse", o) /\ UNCHANGED ast_nodes
    /\ UNCHANGED <<input_file, it, ret, handler, runs, log, out, idleVars>>

\* print(f"Abstract Syntax Tree for {args.input_file}:")
PrintHeader ==
    /\ pc = "header"
    /\ out' = Append(out, HeaderLine(input_file))
    /\ pc' = "separator"
    /\ UNCHANGED <<input_file, ast_nodes, it, errmsg, ret, stage, handler,
                   runs, log, exc, idleVars>>

\* print("-" * 50)
PrintSeparator ==
    /\ pc = "separator"
    /\ out' = Append(out, SeparatorLine)
    /\ pc' = "loop"
    /\ UNCHANGED <<input_file, ast_nodes, it, errmsg, ret, stage, handler,
                   runs, log, exc, idleVars>>

\* Mutant of LoopBody: for node in reversed(ast_nodes).
LoopBody_reversed ==
    /\ pc = "loop" /\ it < Len(ast_nodes)
    /\ LET r == Render(ast_nodes[Len(ast_nodes) - it], 0, <<>>)
       IN  /\ out' = out \o r.out
           /\ IF r.exc = "none"
              THEN it' = it + 1 /\ UNCHANGED <<pc, exc, stage, errmsg>>
              ELSE /\ exc' = r.exc /\ stage' = "render" /\ pc' = "except"
                   /\ errmsg' = StrOf("render", r.exc, input_file)
                   /\ UNCHANGED it
    /\ UNCHANGED <<input_file, ast_nodes, ret, handler, runs, log, idleVars>>

\* One iteration of: for node in ast_nodes: node.print_node()
LoopBody ==
    /\ pc = "loop" /\ it < Len(ast_nodes)
    /\ LET r == Render(ast_nodes[it + 1], 0, <<>>)
       IN  /\ out' = out \o r.out
           /\ IF r.exc = "none"
              THEN it' = it + 1 /\ UNCHANGED <<pc, exc, stage, errmsg>>
              ELSE /\ exc' = r.exc /\ stage' = "render" /\ pc' = "except"
                   /\ errmsg' = StrOf("render", r.exc, input_file)
                   /\ UNCHANGED it
    /\ UNCHANGED <<input_file, ast_nodes, ret, handler, runs, log, idleVars>>

\* The loop is exhausted, the try block ends: return 0
ReturnZero ==
    /\ pc = "loop" /\ it = Len(ast_nodes)
    /\ ret' = 0 /\ pc' = "exit"
    /\ UNCHANGED <<input_file, ast_nodes, it, errmsg, stage, handler, runs,
                   log, out, exc, idleVars>>

\* The except clause h catches the exception, prints its message and
\* returns its status.
Catch(h) ==
    /\ handler' = h
    /\ out' = Append(out, Message(h, input_file, errmsg))
    /\ ret' = HandlerStatus(h)
    /\ pc' = "exit"
    /\ log' = log \cup {[member |-> Member(stage, exc), cls |-> exc,
                         prefix |-> MessagePrefix(h),
                         status |-> HandlerStatus(h)]}
    /\ UNCHANGED <<input_file, ast_nodes, it, errmsg, stage, exc, runs, idleVars>>

\* except FileNotFoundError:
ExceptFileNotFoundError ==
    /\ pc = "except" /\ HandlerFor(exc) = "FileNotFoundError"
    /\ Catch("FileNotFoundError")

\* except SyntaxError as e:
ExceptSyntaxError ==
    /\ pc = "except" /\ HandlerFor(exc) = "SyntaxError"
    /\ Catch("SyntaxError")

\* except Exception as e:
ExceptException ==
    /\ pc = "except" /\ HandlerFor(exc) = "Exception"
    /\ Catch("Exception")

\* No clause matches: the exception leaves main().
Propagate ==
    /\ pc = "except" /\ HandlerFor(exc) = "none"
    /\ pc' = "exit"
    /\ UNCHANGED <<input_file, ast_nodes, it, errmsg, ret, stage, handler,
                   runs, log, out, exc, idleVars>>

MainNext ==
    \/ StartRun \/ ReadFile \/ Tokenize \/ Parse \/ PrintHeader
    \/ PrintSeparator \/ LoopBody \/ ReturnZero \/ ExceptFileNotFoundError
    \/ ExceptSyntaxError \/ ExceptException \/ Propagate

MainSpec == DriverInit /\ [][MainNext]_vars

(***************************************************************************)
(* Properties of the driver (MainSpec).                                    *)
(***************************************************************************)
\* Tokenizing or parsing raised a lexical or a syntax error in this run.
LexOrSyntaxFailure ==
    /\ stage \in {"tokenize", "parse"}
    /\ Member(stage, exc) \in {"LexicalError", "SyntaxError"}

\* C1: when tokenizing or parsing raises a lexical or syntax error, main
\* prints a message that carries str(e) of the error, returns 1 (never 0),
\* and the exception does not leave main.
C1_LexOrSyntaxErrorExitsOne ==
    /\ LexOrSyntaxFailure => pc \in {"except", "exit"}
    /\ (pc = "exit" /\ LexOrSyntaxFailure)
       => /\ ret = 1
          /\ handler \in {"SyntaxError", "Exception"}
          /\ errmsg = StrOf(stage, exc, input_file)
          /\ out = <<[indent |-> 0, text |-> MessagePrefix(handler) \o errmsg]>>

C1_Witness ==
    /\ pc = "exit" /\ stage = "tokenize" /\ exc = "LexerError"
    /\ handler = "Exception" /\ ret = 1 /\ Len(out) = 1

RECURSIVE Traces(_)
\* The lines print_node() prints for the nodes of a forest, in forest order.
Traces(forest) ==
    IF forest = <<>> THEN <<>>
    ELSE Render(Head(forest), 0, <<>>).out \o Traces(Tail(forest))

\* C2: when read, tokenize and parse all complete without error, main
\* prints the header line naming the input file, the separator line, then
\* the rendering of every top-level node in forest order, none skipped or
\* repeated, and returns 0.
C2_SuccessPrintsForest ==
    (pc = "exit" /\ stage \notin {"read", "tokenize", "parse"})
    => /\ ret = 0
       /\ out = <<HeaderLine(input_file), SeparatorLine>> \o Traces(ast_nodes)
       /\ out[1].text = "Abstract Syntax Tree for prog.py:"
       /\ out[2].text = "--------------------------------------------------"

C2_Witness ==
    /\ pc = "exit" /\ ret = 0
    /\ ast_nodes = <<ElifChain, ScenarioA>>
    /\ Len(out) > 20

\* C3 as stated: no two different members of the error taxonomy produce a
\* message with the same prefix.
C3_Original_DistinctPrefixes ==
    \A a, b \in log : a.member # b.member => a.prefix # b.prefix

\* The prefix the driver gives an exception of class cls.
PrefixOfClass(cls) ==
    IF cls = "FileNotFoundError" THEN "Error: Could not open file "
    ELSE IF cls = "SyntaxError" THEN "Syntax Error: "
    ELSE "Error: "

\* C3 as amended: every failure the driver catches gets exit status 1 and
\* a prefix chosen by the Python class of the exception, not by the
\* taxonomy member: FileNotFoundError, SyntaxError and every other
\* Exception have three distinct prefixes, so a file that is not found, a
\* parser SyntaxError and an internal error are told apart, while a lexical
\* error and an unreadable file share the prefix of another member.
C3_PrefixByExceptionClass ==
    /\ \A e \in log : e.status = 1 /\ e.prefix = PrefixOfClass(e.cls)
    /\ \A a, b \in log :
          (/\ a.member # b.member
           /\ {a.member, b.member} \cap {"LexicalError"} = {}
           /\ \A e \in {a, b} :
                e.member = "FileAccessError" => e.cls = "FileNotFoundError")
          => a.prefix # b.prefix

C3_Witness ==
    /\ runs = 2 /\ pc = "exit"
    /\ \E a, b \in log :
          /\ a.member = "LexicalError" /\ b.member = "InternalError"
          /\ a.prefix = b.prefix /\ a.status = 1 /\ b.status = 1

\* parser.parse() has returned the forest in this run.
ParseReturned ==
    /\ pc \in {"header", "separator", "loop", "except", "exit"}
    /\ stage \notin {"read", "tokenize", "parse"}

\* C9: when the lexer or the parser raises, nothing has been printed before
\* the error message; the header, the separator and the trace are printed
\* only after parse() has returned the forest.
C9_NoOutputBeforeParseReturns ==
    /\ stage \in {"tokenize", "parse"} =>
          /\ pc = "except" => out = <<>>
          /\ pc = "exit" =>
               /\ handler # "none"
               /\ out = <<Message(handler, input_file, errmsg)>>
    /\ (\E j \in 1..Len(out) :
            \/ out[j] \in {HeaderLine(input_file), SeparatorLine}
            \/ out[j] \in Range(Traces(ast_nodes)))
       => ParseReturned

C9_Witness ==
    /\ pc = "exit" /\ stage = "parse" /\ handler = "SyntaxError"
    /\ out = <<[indent |-> 0,
                text |-> "Syntax Error: Expected ':', found NEWLINE at line 1, column 5"]>>

(***************************************************************************)
(* The lexer's indentation tracking (Lexer.tokenize).  tokens holds the    *)
(* structural tokens only: INDENT, DEDENT, NEWLINE, END.                   *)
(***************************************************************************)
BaseLevel == 0

Top(st) == st[Len(st)]

RECURSIVE PopUntil(_, _)
\* Pop while the top of the stack is wider than w.
PopUntil(st, w) ==
    IF Len(st) > 1 /\ Top(st) > w THEN PopUntil(SubSeq(st, 1, Len(st) - 1), w)
    ELSE st

Times(tok, n) == [j \in 1..n |-> tok]

\* Mutant of TrackIndent: a dedent stops at the first level that is not
\* wider than the line and is accepted there.
TrackIndent_lenient(st, w) ==
    IF w > Top(st)
    THEN [stack |-> Append(st, w), toks |-> <<"INDENT">>, err |-> FALSE]
    ELSE LET st2 == PopUntil(st, w)
         IN  [stack |-> st2, toks |-> Times("DEDENT", Len(st) - Len(st2)),
              err |-> FALSE]

\* The start of a logical line of leading width w, outside brackets: wider
\* than the top pushes and emits INDENT, equal emits nothing, narrower pops
\* and emits DEDENT until the top matches; matching no level is an error.
TrackIndent(st, w) ==
    IF w > Top(st)
    THEN [stack |-> Append(st, w), toks |-> <<"INDENT">>, err |-> FALSE]
    ELSE LET st2 == PopUntil(st, w)
         IN  [stack |-> st2, toks |-> Times("DEDENT", Len(st) - Len(st2)),
              err |-> Top(st2) # w]

\* The bracket depth after a line that opens or closes one bracket.
DepthAfter(d, br) ==
    CASE br = "open"  -> d + 1
      [] br = "close" -> IF d > 0 THEN d - 1 ELSE 0
      [] OTHER        -> d

\* Mutant of EndTokens: END without the trailing DEDENTs.
EndTokens_no_dedent(st) == <<"END">>

\* What the end of the input emits: one DEDENT per open level, then END.
EndTokens(st) == Times("DEDENT", Len(st) - 1) \o <<"END">>

CodeLines ==
    {[kind |-> "code", width |-> w, br |-> b] :
        w \in 0..MaxWidth, b \in {"none", "open", "close"}}

SkippedLines ==
    {[kind |-> k, width |-> w, br |-> "none"] :
        k \in {"blank", "comment"}, w \in 0..MaxWidth}

LexInit ==
    /\ nlines = 0 /\ stack = <<BaseLevel>> /\ depth = 0 /\ tokens = <<>>
    /\ lexerr = FALSE /\ lexdone = FALSE /\ last = NoLine
    /\ out = <<>> /\ exc = "none"
    /\ RenderIdle /\ DriverIdle

lexIdleVars == <<tree, tree0, indent0, pass, mark, work, calls, out, exc,
                 driverVars>>

Met(l) ==
    [kind |-> l.kind, width |-> l.width, br |-> l.br, stackBefore |-> stack,
     depthBefore |-> depth]

\* A blank or comment-only line: skipped, whatever its width.
SkipLine ==
    /\ ~lexdone /\ nlines < MaxLines
    /\ \E l \in SkippedLines : last' = Met(l)
    /\ nlines' = nlines + 1
    /\ UNCHANGED <<stack, depth, tokens, lexerr, lexdone, lexIdleVars>>

\* A line of code that starts a logical line.
LogicalLine ==
    /\ ~lexdone /\ nlines < MaxLines /\ depth = 0
    /\ \E l \in CodeLines :
         LET t == TrackIndent(stack, l.width)
             d == DepthAfter(depth, l.br)
         IN  /\ last' = Met(l)
             /\ IF t.err
                THEN /\ lexerr' = TRUE /\ lexdone' = TRUE
                     /\ UNCHANGED <<stack, depth, tokens>>
                ELSE /\ stack' = t.stack
                     /\ depth' = d
                     /\ tokens' = tokens \o t.toks
                                  \o (IF d = 0 THEN <<"NEWLINE">> ELSE <<>>)
                     /\ UNCHANGED <<lexerr, lexdone>>
    /\ nlines' = nlines + 1
    /\ UNCHANGED lexIdleVars

\* A line of code inside unmatched brackets: no indentation tracking.
ContinuationLine ==
    /\ ~lexdone /\ nlines < MaxLines /\ depth > 0
    /\ \E l \in CodeLines :
         LET d == DepthAfter(depth, l.br)
         IN  /\ last' = Met(l)
             /\ depth' = d
             /\ tokens' = tokens \o (IF d = 0 THEN <<"NEWLINE">> ELSE <<>>)
    /\ nlines' = nlines + 1
    /\ UNCHANGED <<stack, lexerr, lexdone, lexIdleVars>>

\* The end of the input.
EndOfInput ==
    /\ ~lexdone
    /\ tokens' = tokens \o EndTokens(stack)
    /\ stack' = <<BaseLevel>>
    /\ lexdone' = TRUE
    /\ UNCHANGED <<nlines, depth, lexerr, last, lexIdleVars>>

LexNext == SkipLine \/ LogicalLine \/ ContinuationLine \/ EndOfInput

LexSpec == LexInit /\ [][LexNext]_vars

(***************************************************************************)
(* Properties of the lexer (LexSpec).                                      *)
(***************************************************************************)
Count(tok) == Cardinality({j \in 1..Len(tokens) : tokens[j] = tok})

\* C4: when tokenize completes without a lexical error, it has emitted as
\* many DEDENT as INDENT tokens, the indentation stack is back at its
\* single base level, and END is the last token, emitted once, after every
\* DEDENT; until then the open levels are the INDENTs not yet matched.
C4_IndentsBalanced ==
    /\ (lexdone /\ ~lexerr) =>
          /\ Count("INDENT") = Count("DEDENT")
          /\ stack = <<BaseLevel>>
          /\ tokens # <<>> /\ tokens[Len(tokens)] = "END"
          /\ Count("END") = 1
    /\ ~lexdone =>
          /\ Len(stack) - 1 = Count("INDENT") - Count("DEDENT")
          /\ Count("END") = 0

C4_Witness ==
    /\ lexdone /\ ~lexerr
    /\ Count("INDENT") = 2 /\ Count("DEDENT") = 2
    /\ Len(tokens) >= 3
    /\ tokens[Len(tokens) - 1] = "DEDENT" /\ tokens[Len(tokens) - 2] = "DEDENT"

\* The line consumed last started a logical line outside brackets.
Tracked == last.kind = "code" /\ last.depthBefore = 0

\* The rule of C5: a tracked line narrower than the top of the stack and
\* equal to no level fails; a blank line, a comment line and a line inside
\* brackets never fail.
C5_Rule ==
    /\ (/\ Tracked
        /\ last.width < Top(last.stackBefore)
        /\ \A j \in 1..Len(last.stackBefore) : last.stackBefore[j] # last.width)
       => (lexerr /\ lexdone /\ Count("END") = 0)
    /\ (last.kind \in {"blank", "comment"} \/ last.depthBefore > 0) => ~lexerr

====
